---- MODULE Spec2Model ----
(***************************************************************************)
(* Client side of leptos_server_signal (src/src/lib.rs, wasm32 build):     *)
(* the websocket context, the registry of json signals (state_signals),    *)
(* the queue of patches that arrived before their signal existed           *)
(* (delayed_updates), the onmessage callback and create_server_signal;     *)
(* and the server side constructors ServerSignalUpdate::new /              *)
(* new_from_json with the diff and patch primitives they rest on.          *)
(***************************************************************************)
EXTENDS Integers, Sequences, FiniteSets, TLC

\* ------------------------------------------------------------------ bounds
MaxMsgs == 3
MaxSignals == 2
MaxVal == 2
MaxMutations == 3
\* Messages delivered and signals created, together.
MaxCalls == 5

Names == {"a", "b"}
Keys == {"value", "aux"}
Vals == 0..MaxVal

\* ------------------------------------------------- documents (serde_json)
\* A document is a JSON object: a function from its keys to numbers.
Docs == UNION {[S -> Vals] : S \in SUBSET Keys}

\* T is the struct of the doc example, Count { value: i32 }.
T_default == 0

\* serde_json::to_value(&T): Count { value } becomes {"value": value}.
to_value(v) == [k \in {"value"} |-> v]

\* serde_json::from_value::<T>: the field "value" is required, unknown
\* fields are ignored.
from_value(doc) ==
    IF "value" \in DOMAIN doc
    THEN [ok |-> TRUE, val |-> doc["value"]]
    ELSE [ok |-> FALSE, val |-> T_default]

\* ------------------------------------------------ patches (json_patch)
Op(o, k, v) == [op |-> o, path |-> k, value |-> v]

Without(doc, k) == [x \in DOMAIN doc \ {k} |-> doc[x]]

With(doc, k, v) == [x \in DOMAIN doc \cup {k} |-> IF x = k THEN v ELSE doc[x]]

\* One operation of a patch: add sets the member, remove and replace need
\* the member to exist, test needs it to exist with that value.
apply_op(doc, o) ==
    CASE o.op = "add" -> [ok |-> TRUE, doc |-> With(doc, o.path, o.value)]
      [] o.op = "remove" ->
            IF o.path \in DOMAIN doc
            THEN [ok |-> TRUE, doc |-> Without(doc, o.path)]
            ELSE [ok |-> FALSE, doc |-> doc]
      [] o.op = "replace" ->
            IF o.path \in DOMAIN doc
            THEN [ok |-> TRUE, doc |-> With(doc, o.path, o.value)]
            ELSE [ok |-> FALSE, doc |-> doc]
      [] OTHER ->
            IF o.path \in DOMAIN doc /\ doc[o.path] = o.value
            THEN [ok |-> TRUE, doc |-> doc]
            ELSE [ok |-> FALSE, doc |-> doc]

RECURSIVE apply_ops(_, _)
apply_ops(doc, ops) ==
    IF ops = <<>> THEN [ok |-> TRUE, doc |-> doc]
    ELSE LET r == apply_op(doc, Head(ops))
         IN IF r.ok THEN apply_ops(r.doc, Tail(ops)) ELSE r

\* json_patch::patch(doc, &patch): the operations in order; when one fails
\* the document is restored and the error returned.
patch(doc, p) ==
    LET r == apply_ops(doc, p)
    IN IF r.ok THEN r ELSE [ok |-> FALSE, doc |-> doc]

\* The keys in the order the diff visits them.
KeyOrder == <<"aux", "value">>

RECURSIVE diff_from(_, _, _)
diff_from(left, right, i) ==
    IF i > Len(KeyOrder) THEN <<>>
    ELSE LET k == KeyOrder[i]
             rest == diff_from(left, right, i + 1)
         IN CASE k \in DOMAIN left /\ k \notin DOMAIN right ->
                    <<Op("remove", k, 0)>> \o rest
              [] k \notin DOMAIN left /\ k \in DOMAIN right ->
                    <<Op("add", k, right[k])>> \o rest
              [] k \in DOMAIN left /\ k \in DOMAIN right /\ left[k] # right[k] ->
                    <<Op("replace", k, right[k])>> \o rest
              [] OTHER -> rest

\* json_patch::diff(&left, &right)
diff(left, right) == diff_from(left, right, 1)

\* ------------------------------------------- ServerSignalUpdate (server)
\* The diff taken from the new value to the old one.
new_from_json_swapped(name, old, new) == [name |-> name, patch |-> diff(new, old)]

\* ServerSignalUpdate::new_from_json
new_from_json(name, old, new) == [name |-> name, patch |-> diff(old, new)]

\* ServerSignalUpdate::new (serialization of Count cannot fail)
ServerSignalUpdate_new(name, old, new) ==
    new_from_json(name, to_value(old), to_value(new))

\* ------------------------------------------------------------ wire messages
KnownOps == {"add", "remove", "replace", "move", "copy", "test"}

\* A text frame holding a JSON object with the given top-level fields.
Text(fields, n, p) == [kind |-> "text", fields |-> fields, name |-> n, patch |-> p]

\* A frame whose data is not a string.
Binary == [kind |-> "binary", fields |-> {}, name |-> "a", patch |-> <<>>]

P_set1 == <<Op("replace", "value", 1)>>
P_set2 == <<Op("replace", "value", 2)>>
P_rmaux == <<Op("remove", "aux", 0)>>
P_rmvalue == <<Op("remove", "value", 0)>>
P_bogus == <<Op("frobnicate", "value", 0)>>

WirePatches == {P_set1, P_set2, P_rmaux, P_rmvalue}

RawMsgs ==
    {Text({"name", "patch"}, n, p) : n \in Names, p \in WirePatches}
    \cup {Text({"name", "patch", "extra"}, "a", P_set1),
          Text({"name"}, "a", <<>>),
          Text({"name", "patch"}, "b", P_bogus),
          Binary}

\* A decoder for which no field is required.
decode_lenient(raw) == [ok |-> TRUE, name |-> raw.name, patch |-> raw.patch]

\* serde_json::from_str::<ServerSignalUpdate>: both fields are required,
\* other fields are ignored, and every operation must be a known one.
decode(raw) ==
    IF /\ {"name", "patch"} \subseteq raw.fields
       /\ \A i \in 1..Len(raw.patch) : raw.patch[i].op \in KnownOps
    THEN [ok |-> TRUE, name |-> raw.name, patch |-> raw.patch]
    ELSE [ok |-> FALSE, name |-> raw.name, patch |-> <<>>]

\* ------------------------------------------------------------------- state
VARIABLES
    ctx,              \* the ServerSignalWebSocket context, or NoCtx
    listeners,        \* callbacks the socket invokes for a message
    state_signals,    \* name -> index of its json signal in signals
    delayed_updates,  \* name -> patches received before the name had a signal
    signals,          \* every signal pair made by create_server_signal
    handlers_borrows, \* shared borrows of state_signals never released
    delayed_borrowed, \* a mutable borrow of delayed_updates never released
    outcome,          \* what the last call did
    delivered,        \* name -> patches of the decoded messages, in order
    nmsgs,            \* messages delivered
    failed,           \* names in whose update the callback panicked
    direct,           \* names registered before any patch for them came
    last,             \* the last call: [act, name, raw]
    srv,              \* server: the current value of the named T
    srvdoc,           \* server: the current document of the named json value
    rdoc,             \* a document patched with the updates of srv
    rjson,            \* a document patched with the updates of srvdoc
    rt_ok,            \* every such patch applied
    steps             \* server mutations so far

clientvars == <<ctx, listeners, state_signals, delayed_updates, signals,
                handlers_borrows, delayed_borrowed, outcome, delivered, nmsgs,
                failed, direct, last>>

servervars == <<srv, srvdoc, rdoc, rjson, rt_ok, steps>>

vars == <<clientvars, servervars>>

\* The raw message of a call that is not a delivery.
NoRaw == [kind |-> "none", fields |-> {}, name |-> "", patch |-> <<>>]

NoCtx == [ws |-> 0]

EmptyMap == [n \in {} |-> 0]

\* The client state the callbacks read and write.
CS == [ctx |-> ctx, listeners |-> listeners, state_signals |-> state_signals,
       delayed_updates |-> delayed_updates, signals |-> signals,
       handlers_borrows |-> handlers_borrows,
       delayed_borrowed |-> delayed_borrowed, outcome |-> outcome]

\* A removal that empties the map.
MapClear(m, n) == [x \in {} |-> m[x]]

\* A lookup in place of the removal.
MapKeep(m, n) == m

MapRemove(m, n) == [x \in DOMAIN m \ {n} |-> m[x]]

MapPut(m, n, v) == [x \in DOMAIN m \cup {n} |-> IF x = n THEN v ELSE m[x]]

\* create_signal(cx, T::default()) and create_signal(cx, to_value(T::default()))
new_signal(name) ==
    [name |-> name, doc |-> to_value(T_default), val |-> T_default,
     notified |-> 0, applied |-> <<>>, reg |-> FALSE]
    \* applied: the patches applied so far; reg: it was put in the registry

\* `json_patch::patch(doc, &p).unwrap()` for each p in turn on the document
\* borrowed from the signal: stops at the first patch that fails.
RECURSIVE patch_all(_, _, _)
patch_all(doc, applied, ps) ==
    IF ps = <<>> THEN [ok |-> TRUE, doc |-> doc, applied |-> applied]
    ELSE LET r == patch(doc, Head(ps))
         IN IF r.ok THEN patch_all(r.doc, Append(applied, Head(ps)), Tail(ps))
            ELSE [ok |-> FALSE, doc |-> doc, applied |-> applied]

\* The effect of create_server_signal: set.set(from_value(json_get.get()).unwrap())
run_effect(sig) ==
    LET e == from_value(sig.doc)
    IN [trapped |-> ~e.ok,
        sig |-> IF e.ok THEN [sig EXCEPT !.val = e.val] ELSE sig]

\* An update that notifies after each patch.
signal_update_each(sig, ps) ==
    LET r == patch_all(sig.doc, sig.applied, ps)
        s1 == [sig EXCEPT !.doc = r.doc, !.applied = r.applied]
    IN IF ~r.ok THEN [trapped |-> TRUE, sig |-> s1]
       ELSE run_effect([s1 EXCEPT !.notified = @ + Len(ps)])

\* json_set.update(|doc| ...): the closure patches the document in place,
\* then the signal notifies once and the effect runs. A panic in the closure
\* or in the effect aborts the callback (wasm32: no unwinding).
signal_update(sig, ps) ==
    LET r == patch_all(sig.doc, sig.applied, ps)
        s1 == [sig EXCEPT !.doc = r.doc, !.applied = r.applied]
    IN IF ~r.ok THEN [trapped |-> TRUE, sig |-> s1]
       ELSE run_effect([s1 EXCEPT !.notified = @ + 1])

\* ------------------------------------------------------ onmessage callback
\* The callback holds `handler_map` (a Ref of state_signals, line 198) and
\* `delayed_map` (a RefMut of delayed_updates, line 200) until it returns.
\* The code is compiled for wasm32 only (line 160), where a panic aborts the
\* call without unwinding: a callback that panics in an unwrap of lines
\* 205, 210 or 141 never drops the two guards, and the RefCells stay
\* borrowed for every later call.
\* Lines 201-211 with the two borrows held: the name has a signal.
apply_update(cs, u) ==
    LET id == cs.state_signals[u.name]
        queued == u.name \in DOMAIN cs.delayed_updates
        map1 == IF queued THEN MapRemove(cs.delayed_updates, u.name)
                ELSE cs.delayed_updates
        d == IF queued
             THEN signal_update(cs.signals[id], cs.delayed_updates[u.name])
             ELSE [trapped |-> FALSE, sig |-> cs.signals[id]]
        n == IF d.trapped THEN d ELSE signal_update(d.sig, <<u.patch>>)
    IN [cs EXCEPT !.delayed_updates = map1,
                  !.signals = [@ EXCEPT ![id] = n.sig],
                  !.handlers_borrows = IF n.trapped THEN @ + 1 ELSE @,
                  !.delayed_borrowed = n.trapped,
                  !.outcome = IF n.trapped THEN "trap"
                              ELSE IF queued THEN "drained" ELSE "applied"]

\* Lines 212-215: the name has no signal.
queue_update(cs, u) ==
    [cs EXCEPT !.delayed_updates =
                   MapPut(@, u.name,
                          IF u.name \in DOMAIN @ THEN Append(@[u.name], u.patch)
                          ELSE <<u.patch>>),
               !.outcome = "queued"]

\* The closure given to set_onmessage, for one MessageEvent.
onmessage(cs, raw) ==
    IF raw.kind # "text" THEN [cs EXCEPT !.outcome = "trap"]
    ELSE LET u == decode(raw)
         IN IF ~u.ok THEN [cs EXCEPT !.outcome = "dropped"]
            ELSE IF cs.delayed_borrowed
            THEN [cs EXCEPT !.handlers_borrows = @ + 1,
                            !.outcome = "already_borrowed"]
            ELSE IF u.name \in DOMAIN cs.state_signals
            THEN apply_update(cs, u)
            ELSE queue_update(cs, u)

\* The socket calls each of its callbacks with the event.
RECURSIVE dispatch(_, _, _)
dispatch(cs, raw, k) ==
    IF k = 0 THEN cs ELSE dispatch(onmessage(cs, raw), raw, k - 1)

\* ---------------------------------------------------- create_server_signal
\* A registry that is kept outside the context.
create_server_signal_global(cs, name) ==
    LET sigs == Append(cs.signals, new_signal(name))
    IN IF cs.ctx # NoCtx /\ cs.handlers_borrows > 0
       THEN [cs EXCEPT !.signals = sigs, !.outcome = "already_borrowed"]
       ELSE [cs EXCEPT !.signals = [sigs EXCEPT ![Len(sigs)].reg = TRUE],
                       !.state_signals = MapPut(@, name, Len(sigs)),
                       !.outcome = "registered"]

\* Lines 121-156: the two signals are made, and with a context the json
\* signal is put in the registry under the name.
create_server_signal(cs, name) ==
    LET sigs == Append(cs.signals, new_signal(name))
    IN IF cs.ctx = NoCtx
       THEN [cs EXCEPT !.signals = sigs, !.outcome = "no_context"]
       ELSE IF cs.handlers_borrows > 0
       THEN [cs EXCEPT !.signals = sigs, !.outcome = "already_borrowed"]
       ELSE [cs EXCEPT !.signals = [sigs EXCEPT ![Len(sigs)].reg = TRUE],
                       !.state_signals = MapPut(@, name, Len(sigs)),
                       !.outcome = "registered"]

\* ------------------------------------------ an observer that registers
\* The update of lines 203-211 when an observer of the replica (an effect or
\* a view that reads the signal) calls create_server_signal(m) as it is
\* notified: the notification runs inside json_set.update, while the
\* callback still holds handler_map and delayed_map.
apply_update_observed(cs, u, m) ==
    LET id == cs.state_signals[u.name]
        queued == u.name \in DOMAIN cs.delayed_updates
        map1 == IF queued THEN MapRemove(cs.delayed_updates, u.name)
                ELSE cs.delayed_updates
        first == signal_update(cs.signals[id],
                               IF queued THEN cs.delayed_updates[u.name]
                               ELSE <<u.patch>>)
        mid == [cs EXCEPT !.delayed_updates = map1,
                          !.signals = [@ EXCEPT ![id] = first.sig],
                          !.handlers_borrows = @ + 1,
                          !.delayed_borrowed = TRUE]
        c == create_server_signal(mid, m)
        rest == IF queued THEN signal_update(c.signals[id], <<u.patch>>)
                ELSE [trapped |-> FALSE, sig |-> c.signals[id]]
    IN IF first.trapped THEN apply_update(cs, u)
       ELSE IF c.outcome = "already_borrowed" THEN c
       ELSE [c EXCEPT !.signals = [@ EXCEPT ![id] = rest.sig],
                      !.handlers_borrows = IF rest.trapped THEN @ ELSE @ - 1,
                      !.delayed_borrowed = rest.trapped,
                      !.outcome = IF rest.trapped THEN "trap"
                                  ELSE IF queued THEN "drained" ELSE "applied"]

\* The callback for a message whose update notifies such an observer.
onmessage_observed(cs, raw, m) ==
    IF /\ raw.kind = "text" /\ decode(raw).ok /\ ~cs.delayed_borrowed
       /\ decode(raw).name \in DOMAIN cs.state_signals
    THEN apply_update_observed(cs, decode(raw), m)
    ELSE onmessage(cs, raw)

\* ------------------------------------------------------- provide_websocket
\* A provide_websocket that makes a new context whether or not one exists.
provide_websocket_overwrite(cs, url_ok) ==
    IF ~url_ok THEN [cs EXCEPT !.outcome = "error"]
    ELSE [cs EXCEPT !.ctx = [ws |-> 1], !.state_signals = EmptyMap,
                    !.delayed_updates = EmptyMap, !.listeners = 1,
                    !.outcome = IF cs.ctx = NoCtx THEN "provided" ELSE "kept"]

\* Lines 185-223: the context is made when there is none, and the callback
\* is set as the socket's onmessage property, replacing the one before.
provide_websocket_inner(cs, url_ok) ==
    IF cs.ctx = NoCtx /\ ~url_ok THEN [cs EXCEPT !.outcome = "error"]
    ELSE IF cs.ctx = NoCtx
    THEN [cs EXCEPT !.ctx = [ws |-> 1], !.state_signals = EmptyMap,
                    !.delayed_updates = EmptyMap, !.listeners = 1,
                    !.outcome = "provided"]
    ELSE [cs EXCEPT !.listeners = 1, !.outcome = "kept"]

\* ------------------------------------------------------------ specification
ClientInit ==
    /\ ctx = NoCtx
    /\ listeners = 0
    /\ state_signals = EmptyMap
    /\ delayed_updates = EmptyMap
    /\ signals = <<>>
    /\ handlers_borrows = 0
    /\ delayed_borrowed = FALSE
    /\ outcome = "init"
    /\ delivered = [n \in Names |-> <<>>]
    /\ nmsgs = 0
    /\ failed = {}
    /\ direct = {}
    /\ last = [act |-> "init", name |-> "", raw |-> NoRaw]

ServerInit(v, d) ==
    /\ srv = v
    /\ srvdoc = d
    /\ rdoc = to_value(v)
    /\ rjson = d
    /\ rt_ok = TRUE
    /\ steps = 0

Init == ClientInit /\ ServerInit(T_default, to_value(T_default))

Install(n) ==
    /\ ctx' = n.ctx
    /\ listeners' = n.listeners
    /\ state_signals' = n.state_signals
    /\ delayed_updates' = n.delayed_updates
    /\ signals' = n.signals
    /\ handlers_borrows' = n.handlers_borrows
    /\ delayed_borrowed' = n.delayed_borrowed
    /\ outcome' = n.outcome

ProvideWebsocket ==
    /\ \E url_ok \in BOOLEAN : Install(provide_websocket_inner(CS, url_ok))
    /\ last' = [act |-> "provide", name |-> "", raw |-> NoRaw]
    /\ UNCHANGED <<delivered, nmsgs, failed, direct, servervars>>

CreateServerSignal ==
    /\ Len(signals) < MaxSignals
    /\ nmsgs + Len(signals) < MaxCalls
    /\ \E name \in Names :
          /\ Install(create_server_signal(CS, name))
          /\ last' = [act |-> "create", name |-> name, raw |-> NoRaw]
          /\ direct' = IF /\ outcome' = "registered"
                          /\ name \notin DOMAIN state_signals
                          /\ delivered[name] = <<>>
                       THEN direct \cup {name} ELSE direct
    /\ UNCHANGED <<delivered, nmsgs, failed, servervars>>

Deliver ==
    /\ ctx # NoCtx
    /\ nmsgs < MaxMsgs
    /\ nmsgs + Len(signals) < MaxCalls
    /\ \E raw \in RawMsgs :
          /\ Install(dispatch(CS, raw, listeners))
          /\ delivered' = IF raw.kind = "text" /\ decode(raw).ok
                          THEN [delivered EXCEPT ![raw.name] = Append(@, raw.patch)]
                          ELSE delivered
          /\ failed' = IF /\ raw.kind = "text" /\ decode(raw).ok
                          /\ ~delayed_borrowed /\ delayed_borrowed'
                       THEN failed \cup {raw.name} ELSE failed
          /\ last' = [act |-> "deliver", name |-> raw.name, raw |-> raw]
    /\ nmsgs' = nmsgs + 1
    /\ UNCHANGED <<direct, servervars>>

\* A message for a registered name whose replica has an observer that calls
\* create_server_signal.
DeliverObserved ==
    /\ ctx # NoCtx
    /\ listeners = 1
    /\ nmsgs < MaxMsgs
    /\ nmsgs + Len(signals) < MaxCalls
    /\ Len(signals) < MaxSignals
    /\ ~delayed_borrowed
    /\ \E raw \in RawMsgs, m \in Names :
          /\ raw.kind = "text" /\ decode(raw).ok
          /\ raw.name \in DOMAIN state_signals
          /\ Install(onmessage_observed(CS, raw, m))
          /\ delivered' = [delivered EXCEPT ![raw.name] = Append(@, raw.patch)]
          /\ failed' = IF delayed_borrowed' THEN failed \cup {raw.name} ELSE failed
          /\ last' = [act |-> "deliver_observed", name |-> raw.name, raw |-> raw]
    /\ nmsgs' = nmsgs + 1
    /\ UNCHANGED <<direct, servervars>>

Next == ProvideWebsocket \/ CreateServerSignal \/ Deliver \/ DeliverObserved

Spec == Init /\ [][Next]_vars

\* ------------------------------------------- the server and one replica
\* The server sets the named T to v and emits ServerSignalUpdate::new(old, v);
\* the update's patch is applied as line 210 applies it.
Mutate ==
    /\ steps < MaxMutations
    /\ \E v \in Vals :
          LET u == ServerSignalUpdate_new("a", srv, v)
              r == patch(rdoc, u.patch)
          IN /\ srv' = v
             /\ rdoc' = r.doc
             /\ rt_ok' = (rt_ok /\ r.ok)
    /\ steps' = steps + 1
    /\ UNCHANGED <<srvdoc, rjson, clientvars>>

\* The same for a value kept as a document, with new_from_json.
MutateJson ==
    /\ steps < MaxMutations
    /\ \E d \in Docs :
          LET u == new_from_json("a", srvdoc, d)
              r == patch(rjson, u.patch)
          IN /\ srvdoc' = d
             /\ rjson' = r.doc
             /\ rt_ok' = (rt_ok /\ r.ok)
    /\ steps' = steps + 1
    /\ UNCHANGED <<srv, rdoc, clientvars>>

InitRT == ClientInit /\ \E v \in Vals, d \in Docs : ServerInit(v, d)

NextRT == Mutate \/ MutateJson

SpecRT == InitRT /\ [][NextRT]_vars

\* ------------------------------------------------- vocabulary of the claims
Registered(n) == n \in DOMAIN state_signals

\* The replica the registry holds for a registered name.
Replica(n) == signals[state_signals[n]]

Queue(n) == IF n \in DOMAIN delayed_updates THEN delayed_updates[n] ELSE <<>>

\* This step delivered a message that decoded to an update for n.
DeliverFor(n) == nmsgs' = nmsgs + 1 /\ delivered'[n] # delivered[n]

\* The patch of the update this step delivered for n.
DeliveredPatch(n) == delivered'[n][Len(delivered'[n])]

\* This step is a create_server_signal call for n.
CreateFor(n) ==
    /\ nmsgs' = nmsgs
    /\ Len(signals') = Len(signals) + 1 /\ signals'[Len(signals')].name = n

\* The patches ps apply to doc one after the other and leave a document of T.
Applies(doc, ps) ==
    LET r == patch_all(doc, <<>>, ps) IN r.ok /\ from_value(r.doc).ok

\* The buffered patches q and then the patch p apply to doc.
Completes(doc, q, p) ==
    /\ Applies(doc, q)
    /\ Applies(patch_all(doc, <<>>, q).doc, <<p>>)

\* No callback has panicked while it held the registry and the queue.
NoPanic == ~delayed_borrowed /\ handlers_borrows = 0

\* ---------------------------------------------------------------------- C1
\* C1: while no patch application has failed, for every name the patches
\* applied to the name's replica followed by the patches still queued for it
\* are exactly the patches delivered for it, in order.
C1_AppliedThenQueuedIsDelivered ==
    (ctx # NoCtx /\ NoPanic) =>
        \A n \in Names :
            IF Registered(n)
            THEN Replica(n).applied \o Queue(n) = delivered[n]
            ELSE Queue(n) = delivered[n]

\* ---------------------------------------------------------------------- C2
\* C2: at the first registration of a name the queue holds exactly the
\* patches delivered for it so far, in order; and an update delivered for a
\* registered name that has buffered patches, none of whose patches has
\* failed, gets the buffered patches and then its own patch applied, each
\* once, and the queue entry removed.
C2_BufferedThenOneMore ==
    [][\A n \in Names :
          /\ (CreateFor(n) /\ ~Registered(n) /\ outcome' = "registered")
                => Queue(n)' = delivered[n]
          /\ (/\ DeliverFor(n) /\ Registered(n) /\ n \notin failed
              /\ Queue(n) # <<>>
              /\ Completes(Replica(n).doc, Queue(n), DeliveredPatch(n)))
                => /\ Replica(n)'.applied =
                          Replica(n).applied \o Queue(n) \o <<DeliveredPatch(n)>>
                   /\ n \notin DOMAIN delayed_updates']_vars

\* ---------------------------------------------------------------------- C3
\* C3: right after a registration the name has no queue entry, and a buffered
\* replace /value 1 has made the replica {"value": 1}.
C3_DrainedOnRegistration ==
    (last.act = "create" /\ outcome = "registered") =>
        /\ last.name \notin DOMAIN delayed_updates
        /\ delivered[last.name] = <<P_set1>> => Replica(last.name).doc = to_value(1)

\* ---------------------------------------------------------------------- C4
\* C4: a create_server_signal call for a name that is registered leaves the
\* registry entry on the same replica, with the same document.
C4_RegistrationIdempotent ==
    [][\A n \in Names :
          (CreateFor(n) /\ Registered(n))
             => /\ state_signals'[n] = state_signals[n]
                /\ Replica(n)'.doc = Replica(n).doc]_vars

\* ---------------------------------------------------------------------- C5
\* C5: a name registered before any patch for it was delivered never has a
\* queue entry, and, while no patch for it has failed, every patch delivered
\* for it that applies to its replica is applied to the replica by the
\* callback that receives it.
C5_DirectWhenRegisteredFirst ==
    [][\A n \in direct' :
          /\ n \notin DOMAIN delayed_updates'
          /\ (/\ n \in direct /\ DeliverFor(n) /\ n \notin failed
              /\ Completes(Replica(n).doc, <<>>, DeliveredPatch(n)))
                => Replica(n)'.applied =
                       Append(Replica(n).applied, DeliveredPatch(n))]_vars

\* ---------------------------------------------------------------------- C6
\* C6 as stated: an update for a registered name with K buffered patches,
\* all applied, notifies the replica's observers K + 1 times.
C6_NotifiedPerPatch ==
    [][\A n \in Names :
          (DeliverFor(n) /\ Registered(n) /\ outcome' \in {"applied", "drained"})
             => Replica(n)'.notified = Replica(n).notified + Len(Queue(n)) + 1]_vars

\* C6 amended: the buffered patches are applied in one update of the signal
\* and notify once, the new patch notifies once more: two notifications when
\* there were buffered patches, whatever their number, and one when not.
C6_NotifiedPerUpdate ==
    [][\A n \in Names :
          (DeliverFor(n) /\ Registered(n) /\ outcome' \in {"applied", "drained"})
             => Replica(n)'.notified =
                    Replica(n).notified + (IF Queue(n) # <<>> THEN 2 ELSE 1)]_vars

\* Two buffered patches and a third were applied to a replica by one message.
C6_Witness ==
    /\ last.act = "deliver" /\ outcome = "drained"
    /\ Registered(last.name)
    /\ Len(Replica(last.name).applied) = 3
    /\ Replica(last.name).notified = 2

\* ---------------------------------------------------------------------- C7
\* C7: when a patch for one name fails, the replicas and queue entries of the
\* other names are unchanged, and afterwards an update for a name without a
\* failure is applied when the name is registered and queued when it is not,
\* and a registration registers.
C7_FailureIsolated ==
    [][\A n \in Names :
          /\ (failed' # failed /\ n \notin failed')
                => /\ Queue(n)' = Queue(n)
                   /\ Registered(n) => Replica(n)' = Replica(n)
          /\ (failed # {} /\ n \notin failed)
                => /\ (DeliverFor(n) /\ ~Registered(n))
                         => Queue(n)' = Append(Queue(n), DeliveredPatch(n))
                   /\ (/\ DeliverFor(n) /\ Registered(n)
                       /\ Completes(Replica(n).doc, Queue(n), DeliveredPatch(n)))
                         => Replica(n)'.applied =
                                Replica(n).applied \o Queue(n) \o <<DeliveredPatch(n)>>
                   /\ CreateFor(n) => n \in DOMAIN state_signals']_vars

\* ---------------------------------------------------------------------- C8
\* A text message without both fields, or with an unknown operation.
Malformed(raw) ==
    /\ raw.kind = "text"
    /\ \/ ~({"name", "patch"} \subseteq raw.fields)
       \/ \E i \in 1..Len(raw.patch) : raw.patch[i].op \notin KnownOps

\* C8: the delivery of a malformed message changes neither the registry nor
\* the queue nor a replica, and the callback does with every next message
\* what it would have done without it.
C8_MalformedDiscarded ==
    [][(nmsgs' = nmsgs + 1 /\ Malformed(last'.raw))
          => /\ UNCHANGED <<ctx, listeners, state_signals, delayed_updates,
                            signals, handlers_borrows, delayed_borrowed,
                            delivered>>
             /\ \A raw \in RawMsgs : onmessage(CS', raw) = onmessage(CS, raw)]_vars

\* {"name": "a"} was delivered while a replica and a queue entry existed.
C8_Witness ==
    /\ last.act = "deliver" /\ last.raw.fields = {"name"}
    /\ state_signals # EmptyMap /\ delayed_updates # EmptyMap
    /\ NoPanic

\* ---------------------------------------------------------------------- C9
\* C9: a provide_websocket call made when a context exists leaves the
\* context, the registry, the queue and the replicas as they were, and the
\* socket has one callback, so a message is handled once.
C9_ProvideKeepsContext ==
    [][(last'.act = "provide" /\ ctx # NoCtx)
          => /\ UNCHANGED <<ctx, state_signals, delayed_updates, signals>>
             /\ listeners' = 1]_vars

\* A second provide_websocket call came with a replica registered and patches
\* buffered.
C9_Witness ==
    /\ last.act = "provide" /\ outcome = "kept"
    /\ state_signals # EmptyMap /\ delayed_updates # EmptyMap

\* --------------------------------------------------------------------- C10
\* C10: after the patches of ServerSignalUpdate::new (and of new_from_json)
\* for the successive values are applied in order to a document that started
\* as the first value, every patch has applied and the document equals the
\* last value.
C10_DiffPatchRoundTrip ==
    rt_ok /\ rdoc = to_value(srv) /\ rjson = srvdoc

\* Three mutations were made, the last ones to documents with other members.
C10_Witness ==
    /\ steps = MaxMutations
    /\ srv # T_default /\ rdoc = to_value(srv)
    /\ DOMAIN srvdoc = {"aux"} /\ rjson = srvdoc

\* --------------------------------------------------------------------- C11
\* The buffered patches q and then the patch p do not all apply to doc.
PatchFails(doc, q, p) == ~patch_all(doc, <<>>, q \o <<p>>).ok

\* C11: when a patch of an update for a registered name fails to apply, the
\* replica's document is the one the patches before the failing one left,
\* and the callback ends so that no later message finds the registry or the
\* queue still borrowed.
C11_FailureAbsorbed ==
    [][\A n \in Names :
          (/\ DeliverFor(n) /\ Registered(n) /\ NoPanic
           /\ PatchFails(Replica(n).doc, Queue(n), DeliveredPatch(n)))
             => /\ Replica(n)'.doc =
                       patch_all(Replica(n).doc, <<>>,
                                 Queue(n) \o <<DeliveredPatch(n)>>).doc
                /\ \A raw \in RawMsgs :
                       onmessage(CS', raw).outcome # "already_borrowed"]_vars

\* --------------------------------------------------------------------- C12
\* LIVE: the name is registered, has no queue entry, and a replica of it has
\* had a patch applied.
Live(n) ==
    /\ Registered(n)
    /\ n \notin DOMAIN delayed_updates
    /\ \E i \in 1..Len(signals) :
          signals[i].name = n /\ signals[i].reg /\ signals[i].applied # <<>>

\* C12: a name that is LIVE is LIVE after every step: it stays registered
\* and no patch for it enters the queue again.
C12_LiveStaysLive ==
    [][\A n \in Names : Live(n) => Live(n)']_vars

\* A name went through buffering, was drained, and then had a further patch
\* applied directly.
C12_Witness ==
    /\ last.act = "deliver" /\ outcome = "applied"
    /\ Live(last.name) /\ last.name \notin direct
    /\ Len(delivered[last.name]) = 3
    /\ Replica(last.name).applied = delivered[last.name]

\* --------------------------------------------------------------------- C13
\* C13: an update delivered for a name without a replica is appended to the
\* name's queue entry, and the registry, the signals and the other queue
\* entries are unchanged.
C13_UnregisteredOnlyQueued ==
    [][\A n \in Names :
          (DeliverFor(n) /\ ~Registered(n))
             => /\ Queue(n)' = Append(Queue(n), DeliveredPatch(n))
                /\ UNCHANGED <<state_signals, signals>>
                /\ \A m \in Names \ {n} : Queue(m)' = Queue(m)]_vars

\* --------------------------------------------------------------------- C14
\* C14: a step that handles an update for a name, or a create_server_signal
\* call for it, leaves every other name registered or not as it was, with
\* the same replica and the same queue entry.
C14_NamesIndependent ==
    [][\A n \in Names :
          (DeliverFor(n) \/ CreateFor(n))
             => \A m \in Names \ {n} :
                   /\ Queue(m)' = Queue(m)
                   /\ Registered(m)' = Registered(m)
                   /\ Registered(m) => Replica(m)' = Replica(m)]_vars

\* An update for a drained its buffered patches while b had patches buffered.
C14_Witness ==
    /\ last.act = "deliver" /\ last.name = "a" /\ outcome = "drained"
    /\ "b" \in DOMAIN delayed_updates

\* --------------------------------------------------------------------- C15
\* C15: no call finds the registry or the queue already borrowed in a
\* conflicting mode.
C15_NoBorrowConflict == outcome # "already_borrowed"

\* --------------------------------------------------------------------- C16
\* The patches applied to the signals made for n, in the order of creation.
RECURSIVE AppliedFrom(_, _)
AppliedFrom(n, i) ==
    IF i > Len(signals) THEN <<>>
    ELSE (IF signals[i].name = n THEN signals[i].applied ELSE <<>>)
         \o AppliedFrom(n, i + 1)

AppliedAll(n) == AppliedFrom(n, 1)

IsPrefix(s, t) == Len(s) <= Len(t) /\ SubSeq(t, 1, Len(s)) = s

\* C16: for every name the patches applied so far, over all its replicas,
\* are the first of the patches delivered for it, each once and in order, and
\* the patches in its queue entry are not among them: applied and queued
\* together are no more than delivered.
C16_AppliedAtMostOnce ==
    \A n \in Names :
        /\ IsPrefix(AppliedAll(n), delivered[n])
        /\ Len(AppliedAll(n)) + Len(Queue(n)) <= Len(delivered[n])

\* A drain failed part-way: the third message for a name found two buffered
\* patches, the first is applied, the second failed, and the queue entry is
\* gone.
C16_Witness ==
    /\ last.act = "deliver" /\ outcome = "trap"
    /\ last.name \in failed
    /\ Registered(last.name) /\ last.name \notin DOMAIN delayed_updates
    /\ Len(Replica(last.name).applied) = 1
    /\ Len(delivered[last.name]) = 3

====
